---- MODULE Spec2Model ----
(***************************************************************************)
(* Self-update mechanism of the Build Test application.                    *)
(*                                                                         *)
(*   src/main.py     PlatformDetector, WindowsUpdater, UpdateDownloader    *)
(*                   (a QThread) and MainWindow, which drives a session:   *)
(*                   confirm, download, confirm, install, exit.            *)
(*   updater.bat     the replacement routine that                          *)
(*                   WindowsUpdater.install_from_zip generates             *)
(*                   (main.py 127-170) and spawns as a detached process.   *)
(*   src/updater.py  a second copy of the updater classes; its zip install *)
(*                   flow (install_update, WindowsUpdater.install_from_zip)*)
(*                   is modelled next to main.py's.                        *)
(*                                                                         *)
(* Three processes take steps: the main (GUI) thread of the application,   *)
(* its download worker thread, and the detached routine.  A modal dialog   *)
(* is a position of the main thread: the handler that opened it goes on    *)
(* when the user answers.                                                  *)
(***************************************************************************)
EXTENDS Integers, Sequences, FiniteSets, TLC

(***************************************************************************)
(* Bounds of the model.                                                    *)
(***************************************************************************)
\* update sessions one run of the application may start
MaxSessions == 2
\* non-empty chunks the server delivers in one download (end-to-end runs)
MaxAppChunks == 2
\* non-empty chunks the server delivers in one download (fetcher runs)
MaxChunks == 3
\* clicks on the disabled update button that are recorded
MaxBlockedClicks == 1

(***************************************************************************)
(* Program constants.                                                      *)
(***************************************************************************)
\* response.iter_content(chunk_size=8192)
chunk_size == 8192
\* if %attempts% GTR 3 goto error
max_attempts == 3

(***************************************************************************)
(* Files and directory trees.  A file is named by the directories that     *)
(* lead to it from the root of its tree, its base name and its extension;  *)
(* a tree is a function from the files it holds to their contents ("old":  *)
(* the installed build, "new": the build in the package).                  *)
(***************************************************************************)
F(dir, base, ext) == [dir |-> dir, base |-> base, ext |-> ext]

\* a directory that holds no file
EmptyTree == [f \in {} |-> "old"]

\* a directory of the disk: whether it exists, and the tree it holds
Dir(files) == [exists |-> TRUE, files |-> files]
NoDir == [exists |-> FALSE, files |-> EmptyTree]

\* main_exe_name = "BuildTestSystem.exe"
main_exe_name == [base |-> "BuildTestSystem", ext |-> "exe"]

NameOf(f) == [base |-> f.base, ext |-> f.ext]

\* the executable the session records as current_exe, relative to app_dir
current_exe == F(<< >>, "BuildTestSystem", "exe")

\* the live install directory before any update
InstalledApp ==
    [f \in { F(<< >>, "BuildTestSystem", "exe"),
             F(<< >>, "lib", "dll"),
             F(<< >>, "app", "log") } |-> "old"]

\* the packages the server may hold: whether zipfile can open and extract the
\* file, and the tree it extracts to
ArchNested ==
    [f \in { F(<<"app", "sub">>, "BuildTestSystem", "exe"),
             F(<<"app", "sub">>, "plugin", "dll"),
             F(<<"app">>, "readme", "txt"),
             F(<<"docs">>, "notes", "txt") } |-> "new"]

ArchFlat ==
    [f \in { F(<< >>, "BuildTestSystem", "exe"),
             F(<<"data">>, "plugin", "dll") } |-> "new"]

ArchNoExe ==
    [f \in { F(<< >>, "other", "exe"),
             F(<<"app">>, "readme", "txt") } |-> "new"]

Archives ==
    { [ok |-> TRUE, files |-> ArchNested],
      [ok |-> TRUE, files |-> ArchFlat],
      [ok |-> TRUE, files |-> ArchNoExe],
      [ok |-> FALSE, files |-> EmptyTree] }

IsPrefix(p, d) == Len(p) <= Len(d) /\ SubSeq(d, 1, Len(p)) = p

\* the directory names of the model that match *.tmp or *.log
IgnoredDirNames == { "cache.tmp", "crash.log" }

\* shutil.ignore_patterns('*.tmp', '*.log'): copytree applies it to the
\* names of every directory it lists, files and subdirectories alike, and
\* does not descend into an ignored subdirectory
Ignored(f) ==
    \/ f.ext \in {"tmp", "log"}
    \/ \E i \in 1..Len(f.dir) : f.dir[i] \in IgnoredDirNames

\* shutil.copytree(src, dst, ignore=...): the files of src that are not ignored
CopyTree(src) == [f \in { g \in DOMAIN src : ~Ignored(g) } |-> src[f]]

\* xcopy /E /H /C /I /Q /Y src dst, having copied the files `copied` of src:
\* they overwrite dst's, every other file of dst stays as it is
XCopy(src, dst, copied) ==
    [f \in (DOMAIN dst) \cup copied |-> IF f \in copied THEN src[f] ELSE dst[f]]

\* the directories of a tree: every directory on the way to one of its files
Dirs(tree) ==
    { << >> } \cup
    UNION { { SubSeq(f.dir, 1, n) : n \in 0..Len(f.dir) } : f \in DOMAIN tree }

\* the subdirectories of directory d
SubDirs(tree, d) ==
    { e \in Dirs(tree) : Len(e) = Len(d) + 1 /\ IsPrefix(d, e) }

\* the orders in which the file system may list directories: os.walk takes
\* the entries of a directory as os.scandir yields them, in arbitrary order
Ranks(tree) ==
    { r \in [Dirs(tree) -> 1..Cardinality(Dirs(tree))] :
        \A d, e \in Dirs(tree) : r[d] = r[e] => d = e }

\* os.walk below a directory: its subdirectories `todo` are still to visit;
\* the next one visited is the first in listing order, followed by the walk
\* of its own subdirectories (topdown=True), then by the remaining siblings
RECURSIVE WalkFrom(_, _, _)
WalkFrom(tree, rank, todo) ==
    IF todo = {}
    THEN << >>
    ELSE LET s == CHOOSE x \in todo : \A y \in todo : rank[x] <= rank[y]
         IN  (<< s >> \o WalkFrom(tree, rank, SubDirs(tree, s)))
             \o WalkFrom(tree, rank, todo \ { s })

\* a walk that lists the extraction directory only
OsWalkTopOnly(tree, rank) == << << >> >>

\* os.walk(extract_dir): the roots it yields, in order
OsWalk(tree, rank) ==
    << << >> >> \o WalkFrom(tree, rank, SubDirs(tree, << >>))

\* for root, dirs, files in os.walk(extract_dir):
\*     if main_exe_name in files: app_source_dir = root; break
\* the set holding app_source_dir, empty when it stays None
FirstHit(tree, walk) ==
    LET hit(i) == F(walk[i], main_exe_name.base, main_exe_name.ext) \in DOMAIN tree
        hits == { i \in 1..Len(walk) : hit(i) }
    IN  IF hits = {}
        THEN {}
        ELSE { walk[CHOOSE i \in hits : \A j \in hits : i <= j] }

\* the tree under directory `root` of `tree`, its files named relative to root
SubTree(tree, root) ==
    LET under == { f \in DOMAIN tree : IsPrefix(root, f.dir) }
        rel(f) == F(SubSeq(f.dir, Len(root) + 1, Len(f.dir)), f.base, f.ext)
    IN  [r \in { rel(f) : f \in under } |->
            tree[CHOOSE f \in under : rel(f) = r]]

(***************************************************************************)
(* Progress arithmetic.                                                    *)
(***************************************************************************)
\* Pairs <<downloaded, total_size>> with downloaded <= 2 * total_size < 120
\* where the double-precision (downloaded / total_size) * 100 falls just
\* below the exact integer quotient, so that int() gives one less.  For every
\* other pair the model draws, int((downloaded / total_size) * 100) is the
\* integer floor of 100 * downloaded / total_size.
FloatRoundsDown ==
    { <<23, 20>>, <<29, 25>>, <<46, 40>>, <<29, 50>>, <<57, 50>>, <<58, 50>> }

\* progress = int((downloaded / total_size) * 100)
Percent(d, t) ==
    IF <<d, t>> \in FloatRoundsDown
    THEN ((d * 100) \div t) - 1
    ELSE (d * 100) \div t

VARIABLES
    platform,       \* PlatformDetector.get_platform(): "windows", "mac", "linux"
    mpc,            \* position of the main thread
    buttonEnabled,  \* update_button.isEnabled()
    sessions,       \* sessions started so far (start_update answered Yes)
    blockedClicks,  \* clicks on the update button while it was disabled
    workers,        \* UpdateDownloader threads started in this run
    tempDirs,       \* directories made by tempfile.mkdtemp() in this run
    onErrors,       \* on_update_error calls since the current session began
    failure,        \* the error raised in the current session, or "none"
    confirms,       \* the answers the user gave in the current session
    exitVia,        \* how the application process ended, or "none"
    wpc,            \* position of the download worker
    total_size,     \* int(response.headers.get('content-length', 0))
    downloaded,     \* bytes written so far
    chunks,         \* lengths of the chunks written so far
    progress,       \* the values download_progress emitted
    terminal,       \* the terminal signals the worker emitted
    pending,        \* the worker's terminal signal queued for the main thread
    appDir,         \* the live install directory
    backupDir,      \* temp_dir/backup of the current session
    snapshot,       \* what create_backup copied in this session, if it succeeded
    extractDir,     \* temp_dir/extract of the current session
    app_source_dir, \* the directory of extractDir the walk stopped at
    script,         \* temp_dir/updater.bat: "absent", "written", "deleted"
    rpc,            \* position of the replacement routine
    attempts,       \* the routine's %attempts%
    copies,         \* outcomes of the routine's xcopy attempts so far
    relaunches,     \* the executables the routine started
    zipFile,        \* temp_dir/<filename>, the downloaded package: "absent",
                    \* "open" (inside `with open(...) as f`), "closed"
    console,        \* the lines the routine echoed to its console
    killResult,     \* what the routine's taskkill met: "none" before it ran
    replaced,       \* what backup_dir held when create_backup was called
    upd             \* the outcome of updater.py's install flow, if it ran

appVars == << platform, mpc, buttonEnabled, sessions, blockedClicks, workers,
              tempDirs, onErrors, failure, confirms, exitVia >>
fetchVars == << wpc, total_size, downloaded, chunks, progress, terminal, pending >>
diskVars == << appDir, backupDir, snapshot, extractDir, app_source_dir, script,
               zipFile, replaced >>
routineVars == << rpc, attempts, copies, relaunches, console, killResult >>
vars == << appVars, fetchVars, diskVars, routineVars, upd >>

Platforms == { "windows", "mac", "linux" }

\* no file: the value of `selected` when updater.py's flow picked none
NoFile == F(<< >>, "", "")

\* updater.py's install flow has not run
NotRun == [ran |-> FALSE, error |-> "none", extract |-> NoDir,
           selected |-> NoFile, script |-> "absent", spawned |-> FALSE,
           install_complete |-> FALSE]

\* S3_URLS.get(platform): whether the table has an URL for the platform
HasUrl(p) == p \in { "windows", "mac" }

Init ==
    /\ platform \in Platforms
    /\ mpc = "Idle"
    /\ buttonEnabled = TRUE
    /\ sessions = 0
    /\ blockedClicks = 0
    /\ workers = 0
    /\ tempDirs = 0
    /\ onErrors = 0
    /\ failure = "none"
    /\ confirms = << >>
    /\ exitVia = [how |-> "none", waited |-> FALSE]
    /\ wpc = "none"
    /\ total_size = 0
    /\ downloaded = 0
    /\ chunks = << >>
    /\ progress = << >>
    /\ terminal = << >>
    /\ pending = "none"
    /\ appDir = InstalledApp
    /\ backupDir = NoDir
    /\ snapshot = NoDir
    /\ extractDir = NoDir
    /\ app_source_dir = << >>
    /\ script = "absent"
    /\ rpc = "none"
    /\ attempts = 0
    /\ copies = << >>
    /\ relaunches = << >>
    /\ zipFile = "absent"
    /\ console = << >>
    /\ killResult = "none"
    /\ replaced = NoDir
    /\ upd = NotRun


(***************************************************************************)
(* The coordinator: MainWindow.                                            *)
(***************************************************************************)
\* on_update_error without update_button.setEnabled(True)
OnUpdateErrorKeepsButton(kind) ==
    /\ onErrors' = onErrors + 1
    /\ failure' = kind
    /\ buttonEnabled' = buttonEnabled

\* on_update_error(error_msg): the warning is shown, the button re-enabled
OnUpdateError(kind) ==
    /\ onErrors' = onErrors + 1
    /\ failure' = kind
    /\ buttonEnabled' = TRUE

\* The user clicks the enabled update button: start_update opens its
\* question dialog.
ClickUpdate ==
    /\ mpc = "Idle"
    /\ buttonEnabled
    /\ sessions < MaxSessions
    /\ mpc' = "ConfirmDownload"
    /\ UNCHANGED << platform, buttonEnabled, sessions, blockedClicks, workers,
                    tempDirs, onErrors, failure, confirms, exitVia >>
    /\ UNCHANGED << fetchVars, diskVars, routineVars, upd >>

\* The user clicks the update button while setEnabled(False) holds, in any
\* phase of the session: Qt emits no clicked signal for a disabled button and
\* start_update does not run.
ClickWhileDisabled ==
    /\ mpc \in { "Idle", "ConfirmInstall", "HandingOff" }
    /\ ~buttonEnabled
    /\ blockedClicks < MaxBlockedClicks
    /\ blockedClicks' = blockedClicks + 1
    /\ UNCHANGED << platform, mpc, buttonEnabled, sessions, workers, tempDirs,
                    onErrors, failure, confirms, exitVia >>
    /\ UNCHANGED << fetchVars, diskVars, routineVars, upd >>

\* start_update after the question: reply No
DeclineDownload ==
    /\ mpc = "ConfirmDownload"
    /\ mpc' = "Idle"
    /\ UNCHANGED << platform, buttonEnabled, sessions, blockedClicks, workers,
                    tempDirs, onErrors, failure, confirms, exitVia >>
    /\ UNCHANGED << fetchVars, diskVars, routineVars, upd >>

\* start_update that leaves the update button enabled
StartUpdateButtonOn ==
    /\ mpc = "ConfirmDownload"
    /\ mpc' = "Idle"
    /\ sessions' = sessions + 1
    /\ confirms' = << "download" >>
    /\ total_size' = 0
    /\ downloaded' = 0
    /\ chunks' = << >>
    /\ progress' = << >>
    /\ terminal' = << >>
    /\ pending' = "none"
    /\ backupDir' = NoDir
    /\ extractDir' = NoDir
    /\ script' = "absent"
    /\ snapshot' = NoDir
    /\ zipFile' = "absent"
    /\ \E made \in BOOLEAN :
       IF HasUrl(platform) /\ made
       THEN /\ onErrors' = 0
            /\ failure' = "none"
            /\ buttonEnabled' = TRUE
            /\ workers' = workers + 1
            /\ tempDirs' = tempDirs + 1
            /\ wpc' = "request"
       ELSE /\ onErrors' = 1
            /\ failure' = IF HasUrl(platform) THEN "tempdir" ELSE "platform"
            /\ buttonEnabled' = TRUE
            /\ wpc' = "none"
            /\ UNCHANGED << workers, tempDirs >>
    /\ UNCHANGED << platform, blockedClicks, exitVia, appDir, app_source_dir,
                    replaced, routineVars, upd >>

\* start_update after the question: reply Yes.  The button is disabled and
\* UpdateDownloader() is built: get_s3_url raises on a platform without an
\* URL, before mkdtemp, and mkdtemp may raise (made = FALSE); either goes to
\* on_update_error.  Otherwise the thread gets a fresh temp_dir and starts.
\* The session's backup, extraction and script are those of its own temp_dir:
\* a new session has none yet.
StartUpdate ==
    /\ mpc = "ConfirmDownload"
    /\ mpc' = "Idle"
    /\ sessions' = sessions + 1
    /\ confirms' = << "download" >>
    /\ total_size' = 0
    /\ downloaded' = 0
    /\ chunks' = << >>
    /\ progress' = << >>
    /\ terminal' = << >>
    /\ pending' = "none"
    /\ backupDir' = NoDir
    /\ extractDir' = NoDir
    /\ script' = "absent"
    /\ snapshot' = NoDir
    /\ zipFile' = "absent"
    /\ \E made \in BOOLEAN :
       IF HasUrl(platform) /\ made
       THEN /\ onErrors' = 0
            /\ failure' = "none"
            /\ buttonEnabled' = FALSE
            /\ workers' = workers + 1
            /\ tempDirs' = tempDirs + 1
            /\ wpc' = "request"
       ELSE /\ onErrors' = 1
            /\ failure' = IF HasUrl(platform) THEN "tempdir" ELSE "platform"
            /\ buttonEnabled' = TRUE
            /\ wpc' = "none"
            /\ UNCHANGED << workers, tempDirs >>
    /\ UNCHANGED << platform, blockedClicks, exitVia, appDir, app_source_dir,
                    replaced, routineVars, upd >>

(***************************************************************************)
(* The fetcher: UpdateDownloader.run and download_file, on the worker      *)
(* thread.  Totals are the content-length values the server may declare    *)
(* and Lens the lengths of the chunks iter_content may yield.              *)
(***************************************************************************)
\* run's except clause: error.emit, queued for the main thread
WorkerFails(kind) ==
    /\ wpc' = "finished"
    /\ failure' = kind
    /\ terminal' = Append(terminal, "error")
    /\ pending' = "error"

\* requests.get, raise_for_status, the content-length header, open(file_path)
WorkerRequest(Totals) ==
    /\ wpc = "request"
    /\ \/ /\ \E t \in Totals : total_size' = t
          /\ wpc' = "streaming"
          /\ zipFile' = "open"
          /\ UNCHANGED << failure, terminal, pending >>
       \/ /\ \E kind \in { "network", "http", "write" } : WorkerFails(kind)
          /\ UNCHANGED << total_size, zipFile >>
    /\ UNCHANGED << platform, mpc, buttonEnabled, sessions, blockedClicks,
                    workers, tempDirs, onErrors, confirms, exitVia >>
    /\ UNCHANGED << downloaded, chunks, progress, appDir, backupDir, snapshot,
                    extractDir, app_source_dir, replaced, script, routineVars, upd >>

\* the emit without its guard on total_size: 0 is reported for an unknown length
EmitProgressZero(d) ==
    Append(progress, IF total_size > 0 THEN Percent(d, total_size) ELSE 0)

\* the emit that reports only the first chunk
EmitProgressOnce(d) ==
    IF total_size > 0 /\ progress = << >>
    THEN Append(progress, Percent(d, total_size))
    ELSE progress

\* the emit of one loop iteration, for a non-empty chunk
EmitProgress(d) ==
    IF total_size > 0
    THEN Append(progress, Percent(d, total_size))
    ELSE progress

\* one iteration of `for chunk in response.iter_content(chunk_size=8192)`
\* with a non-empty chunk of c bytes
WorkerChunk(Lens, max) ==
    /\ wpc = "streaming"
    /\ Len(chunks) < max
    /\ \E c \in Lens :
          /\ c >= 1
          /\ c <= chunk_size
          /\ chunks' = Append(chunks, c)
          /\ downloaded' = downloaded + c
          /\ progress' = EmitProgress(downloaded + c)
    /\ UNCHANGED << appVars, wpc, total_size, terminal, pending, diskVars,
                    routineVars, upd >>

\* one iteration with an empty chunk: `if chunk:` skips it
WorkerEmptyChunk ==
    /\ wpc = "streaming"
    /\ UNCHANGED vars

\* iter_content or f.write raises in the loop, or the close at the end of
\* the with block does: the with block closes the file on the way out
WorkerStreamError ==
    /\ wpc = "streaming"
    /\ \E kind \in { "network", "write" } : WorkerFails(kind)
    /\ zipFile' = "closed"
    /\ UNCHANGED << platform, mpc, buttonEnabled, sessions, blockedClicks,
                    workers, tempDirs, onErrors, confirms, exitVia >>
    /\ UNCHANGED << total_size, downloaded, chunks, progress, appDir, backupDir,
                    snapshot, extractDir, app_source_dir, replaced, script,
                    routineVars, upd >>

\* download_complete.emit inside the loop: the worker goes on streaming
WorkerCompleteInLoop ==
    /\ wpc = "streaming"
    /\ Len(terminal) < 2
    /\ terminal' = Append(terminal, "complete")
    /\ pending' = "complete"
    /\ UNCHANGED << appVars, wpc, total_size, downloaded, chunks, progress,
                    diskVars, routineVars, upd >>

\* the stream ends: the with block closes the file, then download_complete
\* is emitted and download_file and run return
WorkerComplete ==
    /\ wpc = "streaming"
    /\ wpc' = "finished"
    /\ zipFile' = "closed"
    /\ terminal' = Append(terminal, "complete")
    /\ pending' = "complete"
    /\ UNCHANGED << appVars, total_size, downloaded, chunks, progress, appDir,
                    backupDir, snapshot, extractDir, app_source_dir, replaced,
                    script, routineVars, upd >>


\* the main thread runs the slot of the queued error signal: on_update_error
DeliverError ==
    /\ mpc = "Idle"
    /\ pending = "error"
    /\ pending' = "none"
    /\ OnUpdateError(failure)
    /\ UNCHANGED << platform, mpc, sessions, blockedClicks, workers, tempDirs,
                    confirms, exitVia >>
    /\ UNCHANGED << wpc, total_size, downloaded, chunks, progress, terminal,
                    diskVars, routineVars, upd >>

\* the main thread runs the slot of the queued download_complete signal:
\* on_download_complete opens its question dialog
DeliverComplete ==
    /\ mpc = "Idle"
    /\ pending = "complete"
    /\ pending' = "none"
    /\ mpc' = "ConfirmInstall"
    /\ UNCHANGED << platform, buttonEnabled, sessions, blockedClicks, workers,
                    tempDirs, onErrors, failure, confirms, exitVia >>
    /\ UNCHANGED << wpc, total_size, downloaded, chunks, progress, terminal,
                    diskVars, routineVars, upd >>

(***************************************************************************)
(* The installation engine: WindowsUpdater, on the main thread.            *)
(***************************************************************************)
Restrict(tree, S) == [f \in S |-> tree[f]]

\* create_backup that copies into the backup directory it finds, without
\* removing it first
CreateBackupMerges(app, old) ==
    { [ok |-> TRUE,
       dir |-> Dir(XCopy(CopyTree(app), old.files, DOMAIN CopyTree(app)))] }
    \cup { [ok |-> FALSE, dir |-> d] : d \in { old, NoDir } }

\* create_backup that returns True from its except clause too
CreateBackupUnchecked(app, old) ==
    { [ok |-> TRUE, dir |-> Dir(CopyTree(app))] }
    \cup { [ok |-> TRUE, dir |-> d] :
             d \in { old, NoDir } \cup
                   { Dir(Restrict(CopyTree(app), S)) :
                       S \in (SUBSET DOMAIN CopyTree(app)) \ { DOMAIN CopyTree(app) } } }

\* create_backup(app_dir, backup_dir): the value returned and the backup
\* directory left behind.  rmtree or copytree may raise: the backup then is
\* what was there before, missing, or a part of the copy.
CreateBackup(app, old) ==
    { [ok |-> TRUE, dir |-> Dir(CopyTree(app))] }
    \cup { [ok |-> FALSE, dir |-> d] :
             d \in { old, NoDir } \cup
                   { Dir(Restrict(CopyTree(app), S)) :
                       S \in (SUBSET DOMAIN CopyTree(app)) \ { DOMAIN CopyTree(app) } } }

\* subprocess.Popen(..., creationflags=CREATE_NEW_CONSOLE), and on an
\* exception the fallback Popen without flags, which may raise too
SpawnOutcomes == { "spawned", "fallback", "failed" }

\* the script run with the exception of the fallback Popen swallowed
RunScriptSwallowed ==
    { [error |-> "none", spawned |-> sp # "failed"] : sp \in SpawnOutcomes }

\* lines 175-184: the exception install_from_zip ends with ("none": it
\* returns) and whether a routine was started.  The fallback Popen is in no
\* try block, so its exception leaves install_from_zip.
RunScript ==
    { [error |-> IF sp = "failed" THEN "spawn" ELSE "none",
       spawned |-> sp # "failed"] : sp \in SpawnOutcomes }

\* The outcomes of install_from_zip(zip_file, current_exe, app_dir, backup_dir,
\* temp_dir): the exception raised ("none": it returned), and the state of
\* temp_dir it leaves.
InstallFromZipOf(archs, app, old) ==
    LET out(err, ex, root, bk, saved, scr, sp) ==
            [error |-> err, extract |-> ex, root |-> root, backup |-> bk,
             backedUp |-> saved, script |-> scr, spawned |-> sp]
        afterBackup(arch, root, b) ==
            IF ~b.ok
            THEN { out("backup", Dir(arch.files), root, b.dir, FALSE, "absent", FALSE) }
            ELSE { out("script", Dir(arch.files), root, b.dir, TRUE, "absent", FALSE) }
                 \cup { out(r.error, Dir(arch.files), root, b.dir, TRUE, "written",
                            r.spawned) : r \in RunScript }
        afterWalk(arch, hit) ==
            IF hit = {}
            THEN { out("payload", Dir(arch.files), << >>, old, FALSE, "absent", FALSE) }
            ELSE UNION { UNION { afterBackup(arch, root, b) : b \in CreateBackup(app, old) } :
                         root \in hit }
        ofArchive(arch) ==
            IF ~arch.ok
            THEN { out("archive", NoDir, << >>, old, FALSE, "absent", FALSE) }
            ELSE UNION { afterWalk(arch, FirstHit(arch.files, OsWalk(arch.files, rank))) :
                         rank \in Ranks(arch.files) }
    IN  UNION { ofArchive(arch) : arch \in archs }

\* install_from_zip on a package of the server
InstallFromZip(app, old) == InstallFromZipOf(Archives, app, old)

\* on_download_complete from install_update(file_path) on, the user's answer
\* recorded as `answer`.  install_update runs on the main thread; an exception
\* goes to on_update_error, and a return leaves the routine spawned and the
\* handler about to exit the process.
RunInstallOf(archs, answer) ==
    /\ mpc = "ConfirmInstall"
    /\ confirms' = Append(confirms, answer)
    /\ IF platform # "windows"
       THEN /\ mpc' = "Idle"
            /\ OnUpdateError("platform")
            /\ UNCHANGED << diskVars, rpc >>
       ELSE \E o \in InstallFromZipOf(archs, appDir, backupDir) :
               /\ extractDir' = o.extract
               /\ app_source_dir' = o.root
               /\ backupDir' = o.backup
               /\ snapshot' = IF o.backedUp THEN o.backup ELSE snapshot
               /\ script' = o.script
               /\ replaced' = IF o.error \in { "archive", "payload" }
                              THEN replaced
                              ELSE backupDir
               /\ UNCHANGED << appDir, zipFile >>
               /\ IF o.error = "none"
                  THEN /\ mpc' = "HandingOff"
                       /\ rpc' = IF o.spawned THEN "grace" ELSE "none"
                       /\ UNCHANGED << onErrors, failure, buttonEnabled >>
                  ELSE /\ mpc' = "Idle"
                       /\ rpc' = "none"
                       /\ OnUpdateError(o.error)
    /\ UNCHANGED << platform, sessions, blockedClicks, workers, tempDirs, exitVia >>
    /\ UNCHANGED << fetchVars, attempts, copies, relaunches, console,
                    killResult, upd >>

\* on_download_complete from install_update on, for the server's packages
RunInstall(answer) == RunInstallOf(Archives, answer)

\* on_download_complete after the question: reply Yes
Install == RunInstall("install")

\* on_download_complete that installs whatever the reply
DeclineInstallProceeds == RunInstall("declined")

\* on_download_complete after the question: reply No
DeclineInstall ==
    /\ mpc = "ConfirmInstall"
    /\ mpc' = "Idle"
    /\ buttonEnabled' = TRUE
    /\ confirms' = Append(confirms, "declined")
    /\ UNCHANGED << platform, sessions, blockedClicks, workers, tempDirs,
                    onErrors, failure, exitVia >>
    /\ UNCHANGED << fetchVars, diskVars, routineVars, upd >>

\* force_exit whose except clause returns to the event loop instead of os._exit(0)
ForceExitGivesUp ==
    /\ mpc = "HandingOff"
    /\ \E running \in BOOLEAN, raised \in BOOLEAN :
          IF raised
          THEN /\ mpc' = "Idle"
               /\ exitVia' = exitVia
          ELSE /\ mpc' = "Exited"
               /\ exitVia' = [how |-> "sys.exit", waited |-> running]
    /\ UNCHANGED << platform, buttonEnabled, sessions, blockedClicks, workers,
                    tempDirs, onErrors, failure, confirms >>
    /\ UNCHANGED << fetchVars, diskVars, routineVars, upd >>

\* force_exit(), reached through install_complete.emit() or line 376.
\* running: downloader.isRunning(), then quit() and wait(1000);
\* raised: an Exception in the try block, then os._exit(0); otherwise
\* QApplication.quit() and sys.exit(0).
ForceExit ==
    /\ mpc = "HandingOff"
    /\ mpc' = "Exited"
    /\ \E running \in BOOLEAN, raised \in BOOLEAN :
          exitVia' = [how |-> IF raised THEN "os._exit" ELSE "sys.exit",
                      waited |-> running]
    /\ UNCHANGED << platform, buttonEnabled, sessions, blockedClicks, workers,
                    tempDirs, onErrors, failure, confirms >>
    /\ UNCHANGED << fetchVars, diskVars, routineVars, upd >>


(***************************************************************************)
(* The replacement routine: updater.bat (main.py 127-170), a process of    *)
(* its own.                                                                *)
(***************************************************************************)
\* the payload the script copies: "{app_source_dir_safe}"
Payload == SubTree(extractDir.files, app_source_dir)

\* start "" "{current_exe_safe}": the path started and the build found there
Started(via, dir) ==
    [via |-> via, exe |-> current_exe,
     build |-> IF current_exe \in DOMAIN dir THEN dir[current_exe] ELSE "missing"]

\* a script without the taskkill: it goes from the grace period to the copy
RoutineGraceSkipsKill ==
    /\ rpc = "grace"
    /\ rpc' = "retry"
    /\ console' = console \o << "starting", "replacing" >>
    /\ UNCHANGED << appVars, fetchVars, diskVars, attempts, copies, relaunches,
                    killResult, upd >>

\* echo Starting update process, then timeout /t 3 /nobreak: the grace period
RoutineGrace ==
    /\ rpc = "grace"
    /\ rpc' = "taskkill"
    /\ console' = Append(console, "starting")
    /\ UNCHANGED << appVars, fetchVars, diskVars, attempts, copies, relaunches,
                    killResult, upd >>

\* taskkill /PID {current_pid} /F > nul 2>&1, then timeout /t 2 and echo
\* Replacing files.  The parent is gone already, or it still runs and is
\* killed, or taskkill fails on it; its output and exit code are discarded
\* and the script goes on in every case.
RoutineTaskkill ==
    /\ rpc = "taskkill"
    /\ rpc' = "retry"
    /\ console' = Append(console, "replacing")
    /\ IF mpc = "Exited"
       THEN /\ killResult' = "gone"
            /\ UNCHANGED << mpc, exitVia >>
       ELSE \E killed \in BOOLEAN :
               IF killed
               THEN /\ killResult' = "killed"
                    /\ mpc' = "Exited"
                    /\ exitVia' = [how |-> "taskkill", waited |-> FALSE]
               ELSE /\ killResult' = "failed"
                    /\ UNCHANGED << mpc, exitVia >>
    /\ UNCHANGED << platform, buttonEnabled, sessions, blockedClicks, workers,
                    tempDirs, onErrors, failure, confirms >>
    /\ UNCHANGED << fetchVars, diskVars, attempts, copies, relaunches, upd >>

\* one pass from :retry of a script that reads `if %attempts% GEQ 3 goto error`
RoutineRetryGeq ==
    /\ rpc = "retry"
    /\ attempts' = attempts + 1
    /\ IF attempts' >= max_attempts
       THEN /\ rpc' = "error"
            /\ UNCHANGED << appDir, copies, relaunches, console >>
       ELSE \E copied \in SUBSET DOMAIN Payload :
               /\ appDir' = XCopy(Payload, appDir, copied)
               /\ IF copied = DOMAIN Payload
                  THEN /\ copies' = Append(copies, "ok")
                       /\ relaunches' = Append(relaunches, Started("success", appDir'))
                       /\ console' = Append(console, "updated")
                       /\ rpc' = "cleanup"
                  ELSE /\ copies' = Append(copies, "failed")
                       /\ relaunches' = relaunches
                       /\ console' = Append(console, "copy failed")
                       /\ rpc' = "retry"
    /\ UNCHANGED << appVars, fetchVars, backupDir, snapshot, extractDir,
                    app_source_dir, replaced, script, zipFile, killResult, upd >>

\* One pass from :retry.  attempts+=1; beyond max_attempts goto error.  Else
\* xcopy the payload over the install directory: with /C it goes on past a
\* file it cannot write, so a failing run leaves any part of the payload
\* copied; errorlevel 1 echoes Copy failed, waits and goes to :retry, success
\* echoes Files updated, starts the executable and goes to :cleanup.
RoutineRetry ==
    /\ rpc = "retry"
    /\ attempts' = attempts + 1
    /\ IF attempts' > max_attempts
       THEN /\ rpc' = "error"
            /\ UNCHANGED << appDir, copies, relaunches, console >>
       ELSE \E copied \in SUBSET DOMAIN Payload :
               /\ appDir' = XCopy(Payload, appDir, copied)
               /\ IF copied = DOMAIN Payload
                  THEN /\ copies' = Append(copies, "ok")
                       /\ relaunches' = Append(relaunches, Started("success", appDir'))
                       /\ console' = Append(console, "updated")
                       /\ rpc' = "cleanup"
                  ELSE /\ copies' = Append(copies, "failed")
                       /\ relaunches' = relaunches
                       /\ console' = Append(console, "copy failed")
                       /\ rpc' = "retry"
    /\ UNCHANGED << appVars, fetchVars, backupDir, snapshot, extractDir,
                    app_source_dir, replaced, script, zipFile, killResult, upd >>

\* :error.  echo Update failed, restoring backup; if exist backup: xcopy it
\* over the install directory (its errorlevel is not looked at, so any part
\* may have been restored) and start the executable; if the backup is gone,
\* neither.
RoutineError ==
    /\ rpc = "error"
    /\ rpc' = "cleanup"
    /\ console' = Append(console, "restoring")
    /\ IF backupDir.exists
       THEN \E restored \in SUBSET DOMAIN backupDir.files :
               /\ appDir' = XCopy(backupDir.files, appDir, restored)
               /\ relaunches' = Append(relaunches, Started("rollback", appDir'))
       ELSE UNCHANGED << appDir, relaunches >>
    /\ UNCHANGED << appVars, fetchVars, backupDir, snapshot, extractDir,
                    app_source_dir, replaced, script, zipFile, attempts, copies,
                    killResult, upd >>

\* a :cleanup that removes temp_dir as a whole
RoutineCleanupRemovesTemp ==
    /\ rpc = "cleanup"
    /\ rpc' = "done"
    /\ extractDir' = NoDir
    /\ backupDir' = NoDir
    /\ zipFile' = "absent"
    /\ script' = "deleted"
    /\ UNCHANGED << appVars, fetchVars, appDir, snapshot, app_source_dir,
                    replaced,
                    attempts, copies, relaunches, console, killResult, upd >>

\* :cleanup.  timeout, rmdir /s /q extract_dir, del "%~f0": the two commands
\* name the extraction directory and the script, nothing else of temp_dir
RoutineCleanup ==
    /\ rpc = "cleanup"
    /\ rpc' = "done"
    /\ extractDir' = NoDir
    /\ script' = "deleted"
    /\ UNCHANGED << appVars, fetchVars, appDir, backupDir, snapshot,
                    app_source_dir, replaced, zipFile, attempts, copies, relaunches,
                    console, killResult, upd >>

\* Something other than the updater removes temp_dir/backup while the routine
\* runs (the case the script's `if exist` provides for).
BackupRemoved ==
    /\ rpc \in { "grace", "taskkill", "retry", "error" }
    /\ backupDir.exists
    /\ backupDir' = NoDir
    /\ UNCHANGED << appVars, fetchVars, appDir, snapshot, extractDir,
                    app_source_dir, replaced, script, zipFile, routineVars, upd >>

(***************************************************************************)
(* The zip install flow of src/updater.py: UpdateDownloader.install_update *)
(* on windows, WindowsUpdater.install_from_zip and install_exe.            *)
(***************************************************************************)
\* for root, dirs, files in os.walk(extract_dir): for file in files:
\*     if file.endswith('.exe'): ...; return
\* the files the loops can stop at: a file with the extension in the first
\* directory of the walk that holds one, in whatever order it lists its files
FirstExe(tree, walk) ==
    LET exes(i) == { f \in DOMAIN tree : f.dir = walk[i] /\ f.ext = "exe" }
        hits == { i \in 1..Len(walk) : exes(i) # {} }
    IN  IF hits = {}
        THEN {}
        ELSE exes(CHOOSE i \in hits : \A j \in hits : i <= j)

\* WindowsUpdater.install_from_zip and install_update around it: extractall
\* may raise; the first file ending in .exe goes to install_exe, which writes
\* update.bat and starts it (either may raise); when the loops end without
\* one, install_from_zip returns None.  install_update emits
\* install_complete after any return.
UpdaterInstallFromZip(arch) ==
    LET out(err, sel, scr, sp) ==
            [ran |-> TRUE, error |-> err,
             extract |-> IF arch.ok THEN Dir(arch.files) ELSE NoDir,
             selected |-> sel, script |-> scr, spawned |-> sp,
             install_complete |-> err = "none"]
        found == UNION { FirstExe(arch.files, OsWalk(arch.files, rank)) :
                         rank \in Ranks(arch.files) }
    IN  IF ~arch.ok
        THEN { out("archive", NoFile, "absent", FALSE) }
        ELSE IF found = {}
        THEN { out("none", NoFile, "absent", FALSE) }
        ELSE UNION { { out("script", f, "absent", FALSE),
                       out("spawn", f, "written", FALSE),
                       out("none", f, "written", TRUE) } : f \in found }

\* install_update(downloaded_file) of updater.py on a downloaded package
UpdaterInstallOf(archs) ==
    /\ mpc = "ConfirmInstall"
    /\ platform = "windows"
    /\ ~upd.ran
    /\ \E arch \in archs : upd' \in UpdaterInstallFromZip(arch)
    /\ UNCHANGED << appVars, fetchVars, diskVars, routineVars >>

(***************************************************************************)
(* The packages and directories the install operations are applied to.     *)
(***************************************************************************)
\* the files a package may hold: the main executable or another file in the
\* extraction directory and in directories below it, and another executable
PackageFiles ==
    { F(d, n.base, n.ext) :
        d \in { << >>, <<"app">>, <<"app", "sub">>, <<"docs">> },
        n \in { main_exe_name, [base |-> "readme", ext |-> "txt"] } }
    \cup { F(<< >>, "other", "exe") }

\* every package with at least one file, and one zipfile cannot open
Packages ==
    { [ok |-> TRUE, files |-> [f \in S |-> "new"]] :
        S \in (SUBSET PackageFiles) \ { {} } }
    \cup { [ok |-> FALSE, files |-> EmptyTree] }

\* install directories: the installed application, and one with
\* subdirectories, among them one the backup ignores
SourceTrees ==
    { InstalledApp,
      [f \in { F(<< >>, "BuildTestSystem", "exe"),
               F(<<"plugins">>, "codec", "dll"),
               F(<<"plugins">>, "codec", "tmp"),
               F(<<"cache.tmp">>, "page", "bin") } |-> "old"] }

\* what backup_dir may hold before create_backup: nothing, or the backup an
\* earlier run left there, with a file the application no longer has, an
\* older copy of one it has, and a log
StaleBackups ==
    { NoDir,
      Dir([f \in { F(<< >>, "BuildTestSystem", "exe"),
                   F(<< >>, "removed", "dll"),
                   F(<< >>, "trace", "log") } |-> "older"]) }

(***************************************************************************)
(* Specifications.                                                         *)
(***************************************************************************)
\* what the server sends in the end-to-end runs
AppTotals == { 0, 2 }
AppLens == { 1, 2 }

AppRequest == WorkerRequest(AppTotals)
AppChunk == WorkerChunk(AppLens, MaxAppChunks)

RoutineStep ==
    \/ RoutineGrace
    \/ RoutineTaskkill
    \/ RoutineRetry
    \/ RoutineError
    \/ RoutineCleanup

Next ==
    \/ ClickUpdate
    \/ ClickWhileDisabled
    \/ DeclineDownload
    \/ StartUpdate
    \/ AppRequest
    \/ AppChunk
    \/ WorkerEmptyChunk
    \/ WorkerStreamError
    \/ WorkerComplete
    \/ DeliverError
    \/ DeliverComplete
    \/ DeclineInstall
    \/ Install
    \/ ForceExit
    \/ RoutineStep
    \/ BackupRemoved

Spec == Init /\ [][Next]_vars

\* The main thread and the routine are running processes: a step either can
\* take is taken.
FairSpec == Spec /\ WF_vars(ForceExit) /\ WF_vars(RoutineStep)

\* The fetcher alone, from the state in which start_update has started the
\* worker on Windows, against a server that declares any of FetchTotals and
\* delivers chunks of the lengths FetchLens.
FetchTails == { 0, 1, 2, chunk_size - 1 }
FetchTotals == { k * chunk_size + r : k \in 0 .. (MaxChunks - 1), r \in FetchTails }
FetchLens == { 1, 2, chunk_size - 1, chunk_size }

FetchRequest == WorkerRequest(FetchTotals)
FetchChunk == WorkerChunk(FetchLens, MaxChunks)

InitFetch ==
    /\ platform = "windows"
    /\ mpc = "Idle"
    /\ buttonEnabled = FALSE
    /\ sessions = 1
    /\ blockedClicks = 0
    /\ workers = 1
    /\ tempDirs = 1
    /\ onErrors = 0
    /\ failure = "none"
    /\ confirms = << "download" >>
    /\ exitVia = [how |-> "none", waited |-> FALSE]
    /\ wpc = "request"
    /\ total_size = 0
    /\ downloaded = 0
    /\ chunks = << >>
    /\ progress = << >>
    /\ terminal = << >>
    /\ pending = "none"
    /\ appDir = InstalledApp
    /\ backupDir = NoDir
    /\ snapshot = NoDir
    /\ extractDir = NoDir
    /\ app_source_dir = << >>
    /\ script = "absent"
    /\ rpc = "none"
    /\ attempts = 0
    /\ copies = << >>
    /\ relaunches = << >>
    /\ zipFile = "absent"
    /\ console = << >>
    /\ killResult = "none"
    /\ replaced = NoDir
    /\ upd = NotRun

NextFetch ==
    \/ FetchRequest
    \/ FetchChunk
    \/ WorkerEmptyChunk
    \/ WorkerStreamError
    \/ WorkerComplete

SpecFetch == InitFetch /\ [][NextFetch]_vars

(***************************************************************************)
(* The install operations on their own: a download has completed on        *)
(* windows and the question of on_download_complete is open; the package   *)
(* is any of Packages, the install directory any of SourceTrees and        *)
(* backup_dir holds any of StaleBackups.                                   *)
(***************************************************************************)
InitInstall ==
    /\ platform = "windows"
    /\ mpc = "ConfirmInstall"
    /\ buttonEnabled = FALSE
    /\ sessions = 1
    /\ blockedClicks = 0
    /\ workers = 1
    /\ tempDirs = 1
    /\ onErrors = 0
    /\ failure = "none"
    /\ confirms = << "download" >>
    /\ exitVia = [how |-> "none", waited |-> FALSE]
    /\ wpc = "finished"
    /\ total_size = 0
    /\ downloaded = 1
    /\ chunks = << 1 >>
    /\ progress = << >>
    /\ terminal = << "complete" >>
    /\ pending = "none"
    /\ appDir \in SourceTrees
    /\ backupDir \in StaleBackups
    /\ snapshot = NoDir
    /\ extractDir = NoDir
    /\ app_source_dir = << >>
    /\ script = "absent"
    /\ rpc = "none"
    /\ attempts = 0
    /\ copies = << >>
    /\ relaunches = << >>
    /\ zipFile = "closed"
    /\ console = << >>
    /\ killResult = "none"
    /\ replaced = NoDir
    /\ upd = NotRun

\* main.py's install_update on any package
InstallPackage ==
    /\ ~upd.ran
    /\ RunInstallOf(Packages, "install")

\* updater.py's install_update on any package
UpdaterInstall == UpdaterInstallOf(Packages)

NextInstall ==
    \/ InstallPackage
    \/ UpdaterInstall

SpecInstall == InitInstall /\ [][NextInstall]_vars


(***************************************************************************)
(* Properties.                                                             *)
(***************************************************************************)
AllCopiesFailed ==
    /\ Len(copies) = max_attempts
    /\ \A i \in 1 .. Len(copies) : copies[i] = "failed"

NonDecreasing(seq) == \A i \in 1 .. (Len(seq) - 1) : seq[i] <= seq[i + 1]

\* C1: when every copy attempt of the routine failed and the routine has
\* ended with the backup directory still in place, the install directory
\* holds exactly what the pre-update backup holds (no file left over from a
\* partial copy, nothing missing; the files the backup leaves out by pattern
\* are not compared) and the one executable relaunched is the original
\* executable path.
C1_RollbackRestoresBackup ==
    (rpc = "done" /\ AllCopiesFailed /\ backupDir = snapshot)
        => /\ CopyTree(appDir) = snapshot.files
           /\ Len(relaunches) = 1
           /\ relaunches[1].exe = current_exe

\* C2: a run of the routine that has reached its end has issued exactly one
\* relaunch, whatever the copy outcomes were and whether or not the backup
\* directory was present.
C2_EveryRunRelaunchesOnce ==
    rpc = "done" => Len(relaunches) = 1

C4_NoDestructiveStepWithoutSnapshot ==
    /\ (script # "absent" \/ rpc # "none" \/ appDir # InstalledApp)
          => snapshot = Dir(CopyTree(InstalledApp))
    /\ failure = "backup"
          => /\ onErrors = 1
             /\ script = "absent"
             /\ rpc = "none"
             /\ appDir = InstalledApp
             /\ ~snapshot.exists

C4_Witness ==
    /\ failure = "backup"
    /\ confirms = << "download", "install" >>
    /\ mpc = "Idle"

\* C5: an error raised in a session before hand-off is reported by exactly
\* one on_update_error once its signal is delivered (and by none before),
\* with the install directory unchanged, the process running, no routine
\* spawned, and the update button enabled so that StartUpdate is accepted
\* again.
PreCommitFailures ==
    { "platform", "tempdir", "network", "http", "write", "archive",
      "payload", "backup", "script", "spawn" }

C5_PreCommitErrorsReportedOnce ==
    /\ onErrors <= 1
    /\ failure \in PreCommitFailures \cup { "none" }
    /\ (failure # "none" /\ pending = "error") => onErrors = 0
    /\ (failure = "none") => onErrors = 0
    /\ (failure # "none" /\ pending = "none")
          => /\ onErrors = 1
             /\ appDir = InstalledApp
             /\ rpc = "none"
             /\ mpc \in { "Idle", "ConfirmDownload" }
             /\ buttonEnabled
             /\ (mpc = "Idle" /\ sessions < MaxSessions) => ENABLED ClickUpdate

C5_Witness ==
    /\ failure = "spawn"
    /\ onErrors = 1
    /\ buttonEnabled
    /\ script = "written"

\* C6: from the moment the routine is spawned the application process only
\* goes on to its exit, never back to the event loop, and it does reach the
\* exit; once exited it stays so.
C6_HandoffEndsInExit ==
    /\ [][ /\ (mpc = "HandingOff") => (mpc' \in { "HandingOff", "Exited" })
           /\ (mpc = "Exited") => (mpc' = "Exited")
           /\ (rpc = "none" /\ rpc' # "none") => (mpc' = "HandingOff")
         ]_vars
    /\ ((mpc = "HandingOff") ~> (mpc = "Exited"))

C6_Witness ==
    /\ mpc = "Exited"
    /\ exitVia = [how |-> "os._exit", waited |-> TRUE]
    /\ rpc = "grace"

\* C7: a worker is started only after Yes to the first question; a routine,
\* a backup or an extraction exists only after Yes to the first and to the
\* second question of the session; and after No to the second question there
\* is no routine, nothing was extracted or backed up, the install directory
\* is unchanged and the coordinator is idle with the update button enabled.
C7_InstallOnlyAfterConfirmation ==
    /\ (wpc # "none") => (Len(confirms) >= 1 /\ confirms[1] = "download")
    /\ (script # "absent" \/ rpc # "none" \/ backupDir.exists
          \/ snapshot.exists \/ extractDir.exists \/ mpc = "HandingOff")
          => confirms = << "download", "install" >>
    /\ (confirms = << "download", "declined" >>)
          => /\ script = "absent"
             /\ rpc = "none"
             /\ ~backupDir.exists
             /\ ~extractDir.exists
             /\ appDir = InstalledApp
             /\ buttonEnabled
             /\ onErrors = 0
             /\ mpc \in { "Idle", "ConfirmDownload" }
             /\ (mpc = "Idle" /\ sessions < MaxSessions) => ENABLED ClickUpdate

C7_Witness ==
    /\ confirms = << "download", "declined" >>
    /\ mpc = "Idle"
    /\ terminal = << "complete" >>

\* C8: with a declared content-length above 0 the percent values emitted are
\* non-decreasing, and when download-complete has been emitted the last
\* progress value emitted is 100.
C8_MonotoneEndingAt100 ==
    (total_size > 0)
        => /\ NonDecreasing(progress)
           /\ ("complete" \in { terminal[i] : i \in 1 .. Len(terminal) })
                 => (progress # << >> /\ progress[Len(progress)] = 100)

\* C9: with no content-length, or one of 0, no percent value is ever
\* emitted, however many chunks of whatever size are written; and a download
\* that ran to the end of the stream without an error emitted
\* download-complete.
C9_NoPercentWithoutLength ==
    (wpc # "request" /\ total_size = 0)
        => /\ progress = << >>
           /\ (wpc = "streaming") => ENABLED WorkerComplete
           /\ (wpc = "finished" /\ failure = "none") => terminal = << "complete" >>

C9_Witness ==
    /\ total_size = 0
    /\ Len(chunks) >= 2
    /\ downloaded > chunk_size
    /\ terminal = << "complete" >>

\* the chunk lengths of a body of n bytes delivered in chunks of chunk_size
\* bytes, the last one possibly shorter
RECURSIVE ChunkingOf(_)
ChunkingOf(n) ==
    IF n <= 0 THEN << >>
    ELSE IF n <= chunk_size THEN << n >>
    ELSE << chunk_size >> \o ChunkingOf(n - chunk_size)

CeilDiv(a, b) == (a + b - 1) \div b

\* C10: with a content-length L > 0 whose body arrives in chunks of 8192
\* bytes, the last possibly shorter, one progress value is emitted after
\* each chunk written; when the download completes there are exactly
\* ceil(L / 8192) of them, non-decreasing and ending at 100.
C10_OneEventPerChunk ==
    (total_size > 0 /\ Len(chunks) <= Len(ChunkingOf(total_size))
       /\ chunks = SubSeq(ChunkingOf(total_size), 1, Len(chunks)))
        => /\ Len(progress) = Len(chunks)
           /\ NonDecreasing(progress)
           /\ (terminal = << "complete" >> /\ chunks = ChunkingOf(total_size))
                 => /\ Len(progress) = CeilDiv(total_size, chunk_size)
                    /\ progress[Len(progress)] = 100

C10_Witness ==
    /\ total_size = 2 * chunk_size + 1
    /\ chunks = << chunk_size, chunk_size, 1 >>
    /\ terminal = << "complete" >>
    /\ Len(progress) = 3

\* whether a tree holds a file named BuildTestSystem.exe, at any depth
HasMainExe(tree) == \E f \in DOMAIN tree : NameOf(f) = main_exe_name

\* C11: whenever the extracted tree holds a file named BuildTestSystem.exe, at
\* any depth and in whatever order the directories are listed, install_from_zip
\* does not fail with the payload-not-found error and the directory it takes as
\* app_source_dir directly contains a file of that name.
C11_PayloadDirectoryHoldsMainExe ==
    (extractDir.exists /\ HasMainExe(extractDir.files))
        => /\ failure # "payload"
           /\ F(app_source_dir, main_exe_name.base, main_exe_name.ext)
                 \in DOMAIN extractDir.files

\* the executable is nowhere but two levels down, below a directory that
\* holds other files, and app/sub is the directory returned
C11_Witness ==
    /\ extractDir.exists
    /\ { f.dir : f \in { g \in DOMAIN extractDir.files : NameOf(g) = main_exe_name } }
          = { <<"app", "sub">> }
    /\ F(<<"app">>, "readme", "txt") \in DOMAIN extractDir.files
    /\ F(<<"docs">>, "readme", "txt") \in DOMAIN extractDir.files
    /\ app_source_dir = <<"app", "sub">>
    /\ rpc = "grace"

\* C12: in both zip install flows a package without the main executable makes
\* the install fail with the payload-not-found error: no file is selected as
\* the payload, no routine script is written or started, and install-complete
\* is not reported.
C12_MissingMainExeAlwaysFails ==
    /\ (extractDir.exists /\ ~HasMainExe(extractDir.files))
          => /\ failure = "payload"
             /\ script = "absent"
             /\ rpc = "none"
             /\ mpc # "HandingOff"
    /\ (upd.ran /\ upd.extract.exists /\ ~HasMainExe(upd.extract.files))
          => /\ upd.error = "payload"
             /\ upd.selected = NoFile
             /\ upd.script = "absent"
             /\ ~upd.spawned
             /\ ~upd.install_complete

\* C13: once create_backup has succeeded, the backup directory holds exactly
\* the files of the install directory that *.tmp and *.log do not match, with
\* the install directory's contents, whatever the backup directory held
\* before: nothing of an earlier backup is left and nothing is merged.
C13_SnapshotIsExactCopy ==
    snapshot.exists
        => /\ backupDir.exists
           /\ DOMAIN backupDir.files = { f \in DOMAIN appDir : ~Ignored(f) }
           /\ \A f \in DOMAIN backupDir.files : backupDir.files[f] = appDir[f]

\* the backup directory held an earlier backup with a file the application
\* does not have, and the install directory has a file and a directory that
\* the patterns match
C13_Witness ==
    /\ snapshot.exists
    /\ replaced.exists
    /\ F(<< >>, "removed", "dll") \in DOMAIN replaced.files
    /\ F(<<"cache.tmp">>, "page", "bin") \in DOMAIN appDir
    /\ F(<<"plugins">>, "codec", "tmp") \in DOMAIN appDir
    /\ backupDir = snapshot

\* the entries of the session's temp_dir: the downloaded package, the
\* extraction directory, the backup directory and the script are all that
\* the program and its script create there
ScratchEntries ==
    (IF zipFile # "absent" THEN { "package" } ELSE {})
    \cup (IF extractDir.exists THEN { "extract" } ELSE {})
    \cup (IF backupDir.exists THEN { "backup" } ELSE {})
    \cup (IF script = "written" THEN { "updater.bat" } ELSE {})

\* whether the routine echoed `line`
Echoed(line) == \E i \in 1..Len(console) : console[i] = line

\* C14: when the routine ends on its success path, the relaunch has been
\* issued and the session's temp directory is gone as a whole: the downloaded
\* package, the extraction directory, whatever else it held, and the script;
\* and the script and the extraction directory are never removed before the
\* relaunch was issued.
C14_SuccessRemovesWholeTempDir ==
    /\ (rpc = "done" /\ Echoed("updated"))
          => /\ Len(relaunches) = 1
             /\ ScratchEntries = {}
             /\ script = "deleted"
    /\ (Echoed("updated") /\ script = "deleted") => Len(relaunches) = 1

\* C15: when the routine has ended after entering rollback, the temp
\* directory holds an artifact that records the failure, that is an entry
\* other than the package, the extraction, the backup and the script; and
\* with the backup present the rollback was carried out.
C15_RollbackLeavesLogArtifact ==
    (rpc = "done" /\ Echoed("restoring"))
        => /\ ScratchEntries \ { "package", "extract", "backup", "updater.bat" } # {}
           /\ backupDir.exists => Len(relaunches) = 1

\* C16: platform support is settled when the session starts.  On a platform
\* other than windows and mac no worker, temp directory or request is ever
\* made and every session ends at once with the unsupported-platform error;
\* and on any platform the unsupported-platform error is only ever raised in
\* a session whose download has not begun.
C16_PlatformSettledAtStart ==
    /\ platform \notin { "windows", "mac" }
          => /\ workers = 0
             /\ tempDirs = 0
             /\ wpc = "none"
             /\ sessions > 0 => failure = "platform"
    /\ failure = "platform" => wpc = "none" /\ zipFile = "absent"

\* C17: the routine makes at most 3 copy attempts; it is in rollback (at
\* :error or past it) only when 3 attempts were made and every one failed;
\* and an attempt that succeeds is the last one: the routine then relaunches
\* the executable once, from the success path, and goes to cleanup.
C17_AtMostThreeCopyAttempts ==
    /\ Len(copies) <= max_attempts
    /\ (rpc = "error" \/ Echoed("restoring"))
          => /\ Len(copies) = max_attempts
             /\ \A i \in 1..Len(copies) : copies[i] = "failed"
    /\ \A i \in 1..Len(copies) :
          copies[i] = "ok"
             => /\ i = Len(copies)
                /\ rpc \in { "cleanup", "done" }
                /\ ~Echoed("restoring")
                /\ Len(relaunches) = 1
                /\ relaunches[1].via = "success"
    /\ rpc = "retry" => \A i \in 1..Len(copies) : copies[i] = "failed"

\* the third attempt succeeded after two failures and the routine has ended
C17_Witness ==
    /\ rpc = "done"
    /\ copies = << "failed", "failed", "ok" >>
    /\ attempts = max_attempts

\* C18: the routine writes to the install directory only after its grace
\* period has elapsed and it has run the forced termination of the parent
\* process: until then the install directory is as it was and no copy was
\* attempted.  The termination is best-effort: whether the parent was killed,
\* had exited already, or could not be killed, the routine is at :retry next
\* and its copy step can run.
C18_WritesOnlyAfterGraceAndKill ==
    /\ rpc \in { "none", "grace", "taskkill" }
          => /\ appDir = InstalledApp
             /\ copies = << >>
             /\ attempts = 0
             /\ killResult = "none"
    /\ rpc \in { "retry", "error", "cleanup", "done" }
          => /\ killResult \in { "killed", "gone", "failed" }
             /\ Len(console) >= 2
             /\ console[1] = "starting"
             /\ console[2] = "replacing"
    /\ killResult = "killed" => exitVia.how = "taskkill"
    /\ killResult = "gone" => exitVia.how \in { "sys.exit", "os._exit" }
    /\ rpc = "retry" => ENABLED RoutineRetry

\* the parent had exited by itself before the taskkill, and the routine went
\* on to copy the payload
C18_Witness ==
    /\ killResult = "gone"
    /\ exitVia.how = "sys.exit"
    /\ copies = << "ok" >>
    /\ appDir # InstalledApp

\* C19: the process is handing off or has exited only when the routine was
\* spawned; and when the spawn failed, fallback included, the coordinator has
\* reported the error once, the process is alive and not exiting, no routine
\* runs and the install directory is as it was.
C19_ExitOnlyAfterSpawn ==
    /\ mpc \in { "HandingOff", "Exited" }
          => /\ rpc # "none"
             /\ script # "absent"
             /\ failure = "none"
    /\ failure = "spawn"
          => /\ onErrors = 1
             /\ buttonEnabled
             /\ mpc \in { "Idle", "ConfirmDownload" }
             /\ exitVia.how = "none"
             /\ rpc = "none"
             /\ appDir = InstalledApp

\* both Popen calls raised after the backup was made and the script written;
\* the coordinator is back in its event loop
C19_Witness ==
    /\ failure = "spawn"
    /\ script = "written"
    /\ backupDir = snapshot
    /\ snapshot.exists
    /\ mpc = "Idle"
    /\ confirms = << "download", "install" >>

\* C20: when the routine is spawned the backup directory exists and holds the
\* snapshot, and no step of the routine (grace, taskkill, a copy attempt,
\* rollback, cleanup) deletes or changes it: through to the routine's end, on
\* the success and the rollback path, the backup directory holds the snapshot
\* unless something other than the routine removed it.
C20_RoutineLeavesBackupAlone ==
    [][ /\ (rpc = "none" /\ rpc' # "none")
              => /\ backupDir'.exists
                 /\ backupDir' = snapshot'
                 /\ snapshot' = Dir(CopyTree(appDir))
        /\ (rpc # "none" /\ (rpc' # rpc \/ attempts' # attempts))
              => UNCHANGED << backupDir, snapshot >>
        /\ rpc' # "none" => backupDir' \in { snapshot', NoDir }
      ]_vars

\* the routine has ended after a rollback that followed three copy attempts
\* which wrote part of the payload, and the backup is still the snapshot
C20_Witness ==
    /\ rpc = "done"
    /\ Echoed("restoring")
    /\ Len(copies) = max_attempts
    /\ appDir # InstalledApp
    /\ backupDir.exists
    /\ backupDir = snapshot

\* downloaded += len(chunk), over the chunks written
RECURSIVE SumOf(_)
SumOf(seq) == IF seq = << >> THEN 0 ELSE seq[1] + SumOf(Tail(seq))

\* C21: a run of the download worker emits at most one terminal event while
\* it runs and exactly one when it has finished, download-complete or error;
\* download-complete comes with the file closed, every chunk written to it
\* and no error raised; and once the terminal event is out nothing more is
\* emitted or written: no progress value, no chunk, no second terminal event.
C21_OneTerminalEvent ==
    /\ [](/\ Len(terminal) <= 1
          /\ (wpc = "finished") <=> (Len(terminal) = 1)
          /\ \A i \in 1..Len(terminal) : terminal[i] \in { "complete", "error" }
          /\ terminal = << "complete" >>
                => /\ zipFile = "closed"
                   /\ failure = "none"
                   /\ pending = "complete"
                   /\ downloaded = SumOf(chunks)
          /\ terminal = << "error" >>
                => /\ zipFile # "open"
                   /\ failure # "none"
                   /\ pending = "error")
    /\ [][terminal # << >>
             => UNCHANGED << terminal, progress, chunks, downloaded, zipFile >>]_vars

\* a download of several chunks with progress reported has completed
C21_Witness ==
    /\ terminal = << "complete" >>
    /\ wpc = "finished"
    /\ Len(chunks) >= 2
    /\ Len(progress) = Len(chunks)
    /\ zipFile = "closed"

\* C22: every percent value the fetcher emits lies in 0..100, whatever the
\* declared content-length and the bytes actually delivered.
C22_PercentWithinRange ==
    \A i \in 1..Len(progress) : progress[i] >= 0 /\ progress[i] <= 100

====
